---- MODULE Spec2Model ----
(***************************************************************************)
(* Wizzy bot: the database-backed conversation memory                      *)
(* (persistent_memory.py over the tables of models.py).                    *)
(*                                                                         *)
(* The store is the three tables chat_history, document_contexts and       *)
(* user_sessions.  A DatabaseChatMessageHistory object is a slot h with a  *)
(* fixed session_id and the memoised field _messages (cache[h]).           *)
(*                                                                         *)
(* Time: datetime.utcnow() is the variable now, counted in ticks of        *)
(* 1/TicksPerDay day.  gunicorn runs one sync worker, so calls do not      *)
(* overlap: each call is one step, it reads one clock value, and the clock *)
(* has moved on by the time the next call reads it (every add_message      *)
(* spans two commits), so two rows never carry the same timestamp.         *)
(*                                                                         *)
(* Store failures: an operation takes a fault argument that names the      *)
(* statement of the call that raises ("none": no statement raises).        *)
(*                                                                         *)
(* The webhook of app.py is modelled beside the store: the WizzyBot object *)
(* keeps its conversations and documents in the dictionaries               *)
(* chat_histories and document_contexts (self_document_contexts here) and  *)
(* does not use the tables.                                                *)
(***************************************************************************)
EXTENDS Integers, Sequences, FiniteSets, TLC

VARIABLES
    now,                \* datetime.utcnow(), in ticks
    chat_history,       \* table chat_history: set of rows
    user_sessions,      \* table user_sessions: set of rows
    document_contexts,  \* table document_contexts: set of rows
    cache,              \* cache[h]: the field _messages of history object h
    serial,             \* number of add_message, store_document and webhook calls so far
    log,                \* log[s]: what add_message stored for s since its last clear
    last,               \* the last call: what ran and what its caller saw
    open_sessions,      \* store sessions handed out by get_session and not closed
    chat_histories,     \* WizzyBot.chat_histories: chat id -> ChatMessageHistory
    self_document_contexts, \* WizzyBot.document_contexts: chat id -> document info
    pending             \* the store_document call that has not committed yet, if any

vars == <<now, chat_history, user_sessions, document_contexts, cache, serial, log, last,
          open_sessions, chat_histories, self_document_contexts, pending>>

\* The state of the WizzyBot object of app.py.
bot == <<chat_histories, self_document_contexts>>

-----------------------------------------------------------------------------
(* Bounds of the model *)

TicksPerDay == 24
MaxTime == 28
MaxAppends == 3
WindowAppends == 22
MaxOther == 1
MaxFaultAppends == 2
MaxStores == 3
MaxDocTime == 50
MaxEvents == 2
MaxRegistryAppends == 2
MaxStoreCalls == 2
MaxOverlapStores == 3
MaxFrameCalls == 4
WindowEvents == 12

(* Program constants *)

LoadLimit == 20
CacheLimit == 20
HorizonDays == 1

Horizon == HorizonDays * TicksPerDay

Sessions == {"A", "B"}

\* History objects, one per session, and the session_id each is constructed with.
Objs == {"hA", "hB"}

SessionOf(h) == IF h = "hA" THEN "A" ELSE "B"

\* The message classes a caller can pass to add_message.
Kinds == {"HumanMessage", "AIMessage", "SystemMessage"}

\* The statements of add_message that can raise.
AddFaults == {"none", "cleanup", "insert", "registry"}

\* The user_name arguments of create_or_update_session ("None": no name given).
UserNames == {"None", "", "Ann", "Bob"}

\* The truth value python gives a user_name: None and "" are false.
Falsy(user_name) == user_name \in {"None", ""}

\* The record of a call: the operation, its target (a history object or a
\* session_id), its argument, the statement that raised, whether an exception
\* reached the caller, the value returned, and the number of rows the target
\* had in the operation's table before the call.
Call(op, target, arg, fault, raised, ret, rows) ==
    [op |-> op, target |-> target, arg |-> arg, fault |-> fault,
     raised |-> raised, ret |-> ret, rows |-> rows]

-----------------------------------------------------------------------------
(* DatabaseManager: the store sessions of a call *)

\* get_session(): the sessions a call opens.  fault "manager": a maintenance
\* function fails to obtain the manager or the session, and none is opened.
Opened(fault) == IF fault = "manager" THEN 0 ELSE 1

\* Closed with a fault: close_session is the last statement of the try body.
ClosedInTryBody(fault) == IF fault = "none" THEN 1 ELSE 0

\* close_session(session) of the finally clause: it runs after the try body
\* and after the except handler; when session was never assigned it raises
\* before it closes anything.
Closed(fault) ==
    IF fault = "manager" THEN 0
    ELSE IF fault = "none" THEN 1
    ELSE 1

\* session = get_session() ... finally: close_session(session)
UseSession(fault) ==
    open_sessions' = open_sessions + Opened(fault) - Closed(fault)

-----------------------------------------------------------------------------
(* Sequence helpers *)

Min(a, b) == IF a < b THEN a ELSE b

Reverse(s) == [i \in 1..Len(s) |-> s[Len(s) + 1 - i]]

\* s[:n]
Limit(s, n) == SubSeq(s, 1, Min(n, Len(s)))

\* s[-n:]
LastN(s, n) == IF Len(s) > n THEN SubSeq(s, Len(s) - n + 1, Len(s)) ELSE s

\* order_by(desc(timestamp)): the rows of S, latest timestamp first.
RECURSIVE OrderByDescTimestamp(_)
OrderByDescTimestamp(S) ==
    IF S = {} THEN <<>>
    ELSE LET r == CHOOSE x \in S : \A y \in S : y.timestamp <= x.timestamp
         IN  <<r>> \o OrderByDescTimestamp(S \ {r})

-----------------------------------------------------------------------------
(* DatabaseChatMessageHistory *)

\* The rows of chat_history with this session_id.
SessionRows(sid) == {r \in chat_history : r.session_id = sid}

\* add_message: the message_type stored for a message class.
MessageType(kind) ==
    IF kind = "HumanMessage" THEN "human"
    ELSE IF kind = "AIMessage" THEN "ai"
    ELSE "system"

\* _load_messages: the messages built from the rows, unknown types skipped.
RECURSIVE ToMessages(_)
ToMessages(rows) ==
    IF rows = <<>> THEN <<>>
    ELSE LET record == Head(rows)
             rest == ToMessages(Tail(rows))
         IN  IF record.message_type = "human"
                 THEN <<[kind |-> "HumanMessage", content |-> record.content]>> \o rest
             ELSE IF record.message_type = "ai"
                 THEN <<[kind |-> "AIMessage", content |-> record.content]>> \o rest
             ELSE rest

\* _load_messages: the query of the session's latest LoadLimit rows.
ChatRecords(sid) == Limit(OrderByDescTimestamp(SessionRows(sid)), LoadLimit)

\* _load_messages: what a load from the store assigns to _messages.
LoadMessages(sid) == ToMessages(Reverse(ChatRecords(sid)))

\* The property messages: what a read through h returns in this state.
Messages(h) ==
    IF cache[h].loaded THEN cache[h].msgs ELSE LoadMessages(SessionOf(h))

\* __init__: a new history object is constructed for the session of slot h.
NewHistory(h) ==
    /\ cache[h].loaded
    /\ cache' = [cache EXCEPT ![h] = [loaded |-> FALSE, msgs |-> <<>>]]
    /\ last' = Call("init", h, "None", "none", FALSE, "None",
                    Cardinality(SessionRows(SessionOf(h))))
    /\ UNCHANGED <<now, chat_history, user_sessions, document_contexts, serial, log>>
    /\ UNCHANGED <<open_sessions, bot, pending>>

\* The property messages read through h while _messages is None: _load_messages
\* runs; a failing query is logged and leaves _messages = [].
ReadMessages(h, fault) ==
    /\ ~cache[h].loaded
    /\ cache' = [cache EXCEPT ![h] =
                    [loaded |-> TRUE,
                     msgs |-> IF fault = "query" THEN <<>>
                              ELSE LoadMessages(SessionOf(h))]]
    /\ last' = Call("messages", h, "None", fault, FALSE, "None",
                    Cardinality(SessionRows(SessionOf(h))))
    /\ UseSession(fault)
    /\ UNCHANGED <<now, chat_history, user_sessions, document_contexts, serial, log>>
    /\ UNCHANGED <<bot, pending>>

\* CleanupOldMessages with a fault: the delete is not filtered by session_id.
CleanupOldMessagesAllSessions(sid, fault) ==
    LET cutoff_time == now - Horizon
    IN  IF fault = "cleanup" THEN chat_history
        ELSE {r \in chat_history : ~(r.timestamp < cutoff_time)}

\* _cleanup_old_messages: the rows left by the delete of the session's rows
\* older than the cutoff; an error is logged and nothing is deleted.
CleanupOldMessages(sid, fault) ==
    LET cutoff_time == now - Horizon
    IN  IF fault = "cleanup" THEN chat_history
        ELSE {r \in chat_history :
                ~(r.session_id = sid /\ r.timestamp < cutoff_time)}

\* _update_user_session: the rows of user_sessions after the statistics update
\* of the session's row, if there is one; an error is logged and nothing changes.
UpdateUserSession(sid, fault) ==
    IF fault = "registry" THEN user_sessions
    ELSE {IF u.session_id = sid
              THEN [u EXCEPT !.last_interaction = now,
                             !.total_messages = u.total_messages + 1]
              ELSE u : u \in user_sessions}

\* add_message: the cache after the append, kept to the latest CacheLimit.
CacheAppend(c, message) ==
    IF c.loaded
        THEN [c EXCEPT !.msgs = LastN(Append(c.msgs, message), CacheLimit)]
        ELSE c

\* AddRaises with a fault: the handler re-raises the error of the failing insert.
AddReraises(fault) == fault = "insert"

\* add_message: whether the exception of the failing insert reaches the caller
\* (the handler logs it and rolls back).
AddRaises(fault) == FALSE

\* AddMessage with a fault: the cache is appended to before the insert commits.
AddMessageCacheFirst(h, kind, fault) ==
    LET sid == SessionOf(h)
        message == [kind |-> kind, content |-> serial + 1]
        chat_record == [session_id |-> sid, message_type |-> MessageType(kind),
                        content |-> message.content, timestamp |-> now]
        cleaned == CleanupOldMessages(sid, fault)
    IN  /\ cache' = [cache EXCEPT ![h] = CacheAppend(cache[h], message)]
        /\ IF fault = "insert"
               THEN /\ chat_history' = cleaned
                    /\ UNCHANGED <<user_sessions, log>>
               ELSE /\ chat_history' = cleaned \cup {chat_record}
                    /\ user_sessions' = UpdateUserSession(sid, fault)
                    /\ log' = [log EXCEPT ![sid] =
                                  Append(log[sid], [kind |-> kind,
                                                    content |-> message.content,
                                                    timestamp |-> now])]
        /\ serial' = serial + 1
        /\ now' = now + 1
        /\ last' = Call("add_message", h, kind, fault, AddRaises(fault), "None",
                        Cardinality(SessionRows(sid)))
        /\ UseSession(fault)
        /\ UNCHANGED <<document_contexts, bot, pending>>

\* add_message(message) on h, for a message of class kind.
AddMessage(h, kind, fault) ==
    LET sid == SessionOf(h)
        message == [kind |-> kind, content |-> serial + 1]
        chat_record == [session_id |-> sid, message_type |-> MessageType(kind),
                        content |-> message.content, timestamp |-> now]
        cleaned == CleanupOldMessages(sid, fault)
    IN  /\ IF fault = "insert"
               THEN /\ chat_history' = cleaned
                    /\ UNCHANGED <<cache, user_sessions, log>>
               ELSE /\ chat_history' = cleaned \cup {chat_record}
                    /\ cache' = [cache EXCEPT ![h] = CacheAppend(cache[h], message)]
                    /\ user_sessions' = UpdateUserSession(sid, fault)
                    /\ log' = [log EXCEPT ![sid] =
                                  Append(log[sid], [kind |-> kind,
                                                    content |-> message.content,
                                                    timestamp |-> now])]
        /\ serial' = serial + 1
        /\ now' = now + 1
        /\ last' = Call("add_message", h, kind, fault, AddRaises(fault), "None",
                        Cardinality(SessionRows(sid)))
        /\ UseSession(fault)
        /\ UNCHANGED <<document_contexts, bot, pending>>

\* Clear with a fault: the rows are deleted and _messages is left as it was.
ClearKeepsCache(h, fault) ==
    LET sid == SessionOf(h)
    IN  /\ IF fault = "delete"
               THEN UNCHANGED <<chat_history, log>>
               ELSE /\ chat_history' = chat_history \ SessionRows(sid)
                    /\ log' = [log EXCEPT ![sid] = <<>>]
        /\ last' = Call("clear", h, "None", fault, FALSE, "None",
                        Cardinality(SessionRows(sid)))
        /\ UseSession(fault)
        /\ UNCHANGED <<now, user_sessions, document_contexts, cache, serial, bot, pending>>

\* clear() on h; a failing delete is logged and rolled back.
Clear(h, fault) ==
    LET sid == SessionOf(h)
    IN  /\ IF fault = "delete"
               THEN UNCHANGED <<chat_history, cache, log>>
               ELSE /\ chat_history' = chat_history \ SessionRows(sid)
                    /\ cache' = [cache EXCEPT ![h] = [loaded |-> TRUE, msgs |-> <<>>]]
                    /\ log' = [log EXCEPT ![sid] = <<>>]
        /\ last' = Call("clear", h, "None", fault, FALSE, "None",
                        Cardinality(SessionRows(sid)))
        /\ UseSession(fault)
        /\ UNCHANGED <<now, user_sessions, document_contexts, serial, bot, pending>>

\* Time passes between two calls.
PassTime(d) ==
    /\ now' = now + d
    /\ last' = Call("time", "", d, "none", FALSE, "None", 0)
    /\ UNCHANGED <<chat_history, user_sessions, document_contexts, cache, serial, log>>
    /\ UNCHANGED <<open_sessions, bot, pending>>

\* cleanup_all_old_messages: the rows the delete removes, of whatever session.
OldMessages ==
    LET cutoff_time == now - Horizon
    IN  {r \in chat_history : r.timestamp < cutoff_time}

\* cleanup_all_old_messages().  fault "delete": the delete or the commit raises,
\* the handler rolls back and returns 0.  fault "manager": get_database_manager
\* or get_session raises, the handler and the finally clause then use the
\* unassigned local session, and the error reaches the caller.
CleanupAllOldMessages(fault) ==
    /\ chat_history' =
          IF fault = "none" THEN chat_history \ OldMessages ELSE chat_history
    /\ last' = Call("cleanup_all_old_messages", "", "None", fault, fault = "manager",
                    IF fault = "none" THEN Cardinality(OldMessages) ELSE 0,
                    Cardinality(chat_history))
    /\ UseSession(fault)
    /\ UNCHANGED <<now, user_sessions, document_contexts, cache, serial, log, bot, pending>>

-----------------------------------------------------------------------------
(* UserSessionManager *)

\* NameAfter with a fault: a name supplied later replaces the stored one.
NameAfterOverwrite(stored, user_name) ==
    IF ~Falsy(user_name) THEN user_name ELSE stored

\* create_or_update_session: the user_name of an existing row after the call:
\* the argument is taken only when it is given and the row has no name yet.
NameAfter(stored, user_name) ==
    IF ~Falsy(user_name) /\ Falsy(stored) THEN user_name ELSE stored

\* create_or_update_session(session_id, user_name); a failure is rolled back.
CreateOrUpdateSession(sid, user_name, fault) ==
    LET existing == {u \in user_sessions : u.session_id = sid}
    IN  /\ IF fault = "commit" THEN UNCHANGED user_sessions
           ELSE IF existing # {}
               THEN user_sessions' =
                       {IF u.session_id = sid
                            THEN [u EXCEPT !.last_interaction = now,
                                           !.user_name =
                                               NameAfter(u.user_name, user_name)]
                            ELSE u : u \in user_sessions}
               ELSE user_sessions' = user_sessions \cup
                       {[session_id |-> sid, user_name |-> user_name,
                         first_interaction |-> now, last_interaction |-> now,
                         total_messages |-> 0]}
        /\ last' = Call("create_or_update_session", sid, user_name, fault, FALSE, "None",
                        Cardinality(existing))
        /\ UseSession(fault)
        /\ UNCHANGED <<now, chat_history, document_contexts, cache, serial, log, bot, pending>>

-----------------------------------------------------------------------------
(* DatabaseDocumentManager *)

\* The documents a caller can pass to store_document.
DocInputs ==
    {[filename |-> "a.pdf", content |-> "text a", summary |-> "sum a",
      file_type |-> "pdf", file_size |-> 10],
     [filename |-> "b.txt", content |-> "text b", summary |-> "sum b",
      file_type |-> "txt", file_size |-> 20]}

\* The days arguments of cleanup_old_documents.
DaysArgs == {1, 2}

\* The rows of document_contexts with this session_id.
SessionDocs(sid) == {d \in document_contexts : d.session_id = sid}

\* datetime.isoformat()
IsoFormat(t) == ToString(t)

\* get_document: the value returned for a session on a store that answers:
\* the dict built from the first row of the session, or None.
GetDocument(sid) ==
    IF SessionDocs(sid) = {} THEN [found |-> FALSE]
    ELSE LET doc_context == CHOOSE d \in SessionDocs(sid) : TRUE
         IN  [found |-> TRUE,
              filename |-> doc_context.filename,
              content |-> doc_context.content,
              summary |-> doc_context.summary,
              file_type |-> doc_context.file_type,
              file_size |-> doc_context.file_size,
              uploaded_at |-> IsoFormat(doc_context.uploaded_at)]

\* The row store_document adds.
DocumentRow(sid, doc) ==
    [session_id |-> sid, filename |-> doc.filename, content |-> doc.content,
     summary |-> doc.summary, file_type |-> doc.file_type,
     file_size |-> doc.file_size, uploaded_at |-> now]

\* StoredDocuments with a fault: the session's rows are not deleted first.
StoredDocumentsAppend(sid, doc, fault) ==
    IF fault # "none" THEN document_contexts
    ELSE document_contexts \cup {DocumentRow(sid, doc)}

\* StoredDocuments with a fault: the delete is committed on its own, before the
\* insert that fails.
StoredDocumentsDeleteFirst(sid, doc, fault) ==
    IF fault = "delete" THEN document_contexts
    ELSE IF fault = "commit" THEN document_contexts \ SessionDocs(sid)
    ELSE (document_contexts \ SessionDocs(sid)) \cup {DocumentRow(sid, doc)}

\* store_document: the table after the transaction that deletes the session's
\* rows and adds the new one; a failing statement rolls the transaction back.
StoredDocuments(sid, doc, fault) ==
    IF fault # "none" THEN document_contexts
    ELSE (document_contexts \ SessionDocs(sid)) \cup {DocumentRow(sid, doc)}

\* store_document(session_id, filename, content, summary, file_type, file_size)
StoreDocument(sid, doc, fault) ==
    /\ document_contexts' = StoredDocuments(sid, doc, fault)
    /\ serial' = serial + 1
    /\ now' = now + 1
    /\ last' = Call("store_document", sid, doc, fault, FALSE, fault = "none",
                    Cardinality(SessionDocs(sid)))
    /\ UseSession(fault)
    /\ UNCHANGED <<chat_history, user_sessions, cache, log, bot, pending>>

\* get_document(session_id); a failing query is logged and None is returned.
GetDocumentCall(sid, fault) ==
    /\ last' = Call("get_document", sid, "None", fault, FALSE,
                    IF fault = "query" THEN [found |-> FALSE] ELSE GetDocument(sid),
                    Cardinality(SessionDocs(sid)))
    /\ UseSession(fault)
    /\ UNCHANGED <<now, chat_history, user_sessions, document_contexts, cache,
                   serial, log, bot, pending>>

\* delete_document(session_id); a failing delete is rolled back.
DeleteDocument(sid, fault) ==
    /\ document_contexts' =
          IF fault = "delete" THEN document_contexts
          ELSE document_contexts \ SessionDocs(sid)
    /\ last' = Call("delete_document", sid, "None", fault, FALSE, fault = "none",
                    Cardinality(SessionDocs(sid)))
    /\ UseSession(fault)
    /\ UNCHANGED <<now, chat_history, user_sessions, cache, serial, log, bot, pending>>

\* OldDocuments with a fault: a document exactly days old is deleted too.
OldDocumentsInclusive(days) ==
    LET cutoff_time == now - days * TicksPerDay
    IN  {d \in document_contexts : d.uploaded_at <= cutoff_time}

\* cleanup_old_documents: the rows the delete removes.
OldDocuments(days) ==
    LET cutoff_time == now - days * TicksPerDay
    IN  {d \in document_contexts : d.uploaded_at < cutoff_time}

\* cleanup_old_documents(days).  fault "delete": the delete or the commit raises,
\* the handler rolls back and returns 0.  fault "manager": get_database_manager
\* or get_session raises, the handler and the finally clause then use the
\* unassigned local session, and the error reaches the caller.
CleanupOldDocuments(days, fault) ==
    /\ document_contexts' =
          IF fault = "none" THEN document_contexts \ OldDocuments(days)
          ELSE document_contexts
    /\ last' = Call("cleanup_old_documents", "", days, fault, fault = "manager",
                    IF fault = "none" THEN Cardinality(OldDocuments(days)) ELSE 0,
                    Cardinality(document_contexts))
    /\ UseSession(fault)
    /\ UNCHANGED <<now, chat_history, user_sessions, cache, serial, log, bot, pending>>

-----------------------------------------------------------------------------
(* store_document statement by statement, for readers that run meanwhile *)

\* AfterDeleteStatement with a fault: the delete is committed on its own.
AfterDeleteStatementAutocommit(sid) == document_contexts \ SessionDocs(sid)

\* store_document: the table other sessions read once the delete statement has
\* run: the session is not in autocommit mode, so the deletion stays inside
\* the open transaction.
AfterDeleteStatement(sid) == document_contexts

\* store_document up to the commit: the session is opened and the delete
\* statement runs.  fault "delete": the statement raises, the handler rolls
\* back and the call returns False.
StoreDocumentDelete(sid, doc, fault) ==
    /\ pending = << >>
    /\ IF fault = "delete"
           THEN /\ UNCHANGED <<document_contexts, pending>>
                /\ open_sessions' = open_sessions + Opened(fault) - Closed(fault)
                /\ last' = Call("store_document", sid, doc, fault, FALSE, FALSE,
                                Cardinality(SessionDocs(sid)))
           ELSE /\ document_contexts' = AfterDeleteStatement(sid)
                /\ pending' = <<[session_id |-> sid, doc |-> doc,
                                 replaced |-> SessionDocs(sid)]>>
                /\ open_sessions' = open_sessions + Opened(fault)
                /\ last' = Call("store_document.delete", sid, doc, fault, FALSE, "None",
                                Cardinality(SessionDocs(sid)))
    /\ UNCHANGED <<now, serial, chat_history, user_sessions, cache, log, bot>>

\* store_document from the add to the return: the row is added and the
\* transaction commits, deletion and insertion together.  fault "commit": the
\* commit raises, the handler rolls back and the call returns False.
StoreDocumentCommit(fault) ==
    /\ pending # << >>
    /\ LET sid == pending[1].session_id
           doc == pending[1].doc
       IN  /\ document_contexts' = StoredDocuments(sid, doc, fault)
           /\ last' = Call("store_document", sid, doc, fault, FALSE, fault = "none",
                           Cardinality(pending[1].replaced))
    /\ pending' = << >>
    /\ open_sessions' = open_sessions - Closed(fault)
    /\ serial' = serial + 1
    /\ now' = now + 1
    /\ UNCHANGED <<chat_history, user_sessions, cache, log, bot>>

-----------------------------------------------------------------------------
(* WizzyBot: the webhook of app.py *)

\* The chat ids of inbound events; str(chat id) is the session key.
ChatIds == Sessions

\* The keys of a message that process_webhook looks for.
PayloadKinds == {"voice", "photo", "document", "text"}

\* The bodies posted to the webhook.  shape "null": the body is JSON null;
\* shape "scalar": update_data['message'] is not a mapping; shape "mapping":
\* the message is a mapping with the given keys, chat id ("None": no chat id)
\* and, under the key document, the given file.
Updates ==
    {[shape |-> sh, chat_id |-> "None", keys |-> {}, document |-> "None"] :
        sh \in {"null", "scalar"}}
    \cup
    {[shape |-> "mapping", chat_id |-> c, keys |-> k, document |-> "None"] :
        c \in ChatIds \cup {"None"}, k \in SUBSET (PayloadKinds \ {"document"})}
    \cup
    {[shape |-> "mapping", chat_id |-> c, keys |-> k \cup {"document"}, document |-> d] :
        c \in ChatIds \cup {"None"}, k \in SUBSET (PayloadKinds \ {"document"}),
        d \in DocInputs}

\* What can go wrong while one event is handled.  "fields": a field the
\* processing path reads is missing or the download raises; "llm": the model
\* call raises; "format", "empty": the document has an unsupported extension,
\* no extractable text; "speech": generate_speech returns None; "sendAudio",
\* "sendMessage": the post to Telegram raises.
WebhookFaults ==
    {"none", "fields", "llm", "format", "empty", "speech", "sendAudio", "sendMessage"}

\* The texts a processing path returns.
Apology == [type |-> "apology", n |-> 0]
Notice == [type |-> "notice", n |-> 0]
Response(n) == [type |-> "response", n |-> n]
Summary(n) == [type |-> "summary", n |-> n]

\* get_session_history: chat_histories after the call, the session's history
\* created when there is none.
GetSessionHistory(session_id) ==
    IF session_id \in DOMAIN chat_histories THEN chat_histories
    ELSE (session_id :> <<>>) @@ chat_histories

\* create_system_message(user_name, chat_id): the persona text for the user,
\* the current time and, if the chat has a document, the document block.
CreateSystemMessage(user_name, chat_id) ==
    [user_name |-> user_name,
     current_time |-> IsoFormat(now),
     document |->
        IF chat_id # "None" /\ chat_id \in DOMAIN self_document_contexts
            THEN <<[filename |-> self_document_contexts[chat_id].filename,
                    summary |-> self_document_contexts[chat_id].summary]>>
            ELSE <<>>]

\* process_text_message, reached directly or from process_audio_message and
\* process_image_message with the derived text: chain_with_history is invoked
\* with the system message and the session's history, and stores the input and
\* the answer in the history when the model answered.
ProcessTextMessage(chat_id, fault) ==
    IF fault = "fields"
        THEN [response_text |-> Apology, chat_histories |-> chat_histories,
              document_contexts |-> self_document_contexts, asked |-> <<>>]
    ELSE LET created == GetSessionHistory(chat_id)
             asked == <<[system_message |-> CreateSystemMessage("Ann", chat_id),
                         history |-> created[chat_id],
                         input |-> serial + 1]>>
         IN  IF fault = "llm"
                 THEN [response_text |-> Apology, chat_histories |-> created,
                       document_contexts |-> self_document_contexts, asked |-> asked]
                 ELSE [response_text |-> Response(serial + 1),
                       chat_histories |->
                           [created EXCEPT ![chat_id] =
                               @ \o <<[kind |-> "HumanMessage", content |-> serial + 1],
                                      [kind |-> "AIMessage", content |-> serial + 1]>>],
                       document_contexts |-> self_document_contexts,
                       asked |-> asked]

\* process_document: the entry stored in document_contexts; the summary is the
\* model's, or the word count when the model call raises.
DocumentInfo(doc, fault) ==
    [filename |-> doc.filename,
     content |-> doc.content,
     summary |-> IF fault = "llm" THEN "Document with N words uploaded."
                 ELSE doc.summary,
     uploaded_at |-> IsoFormat(now)]

\* ProcessDocumentMessage with a fault: the upload and the summary are also
\* appended to the session's history.
ProcessDocumentMessageViaChain(chat_id, doc, fault) ==
    IF fault = "fields"
        THEN [response_text |-> Apology, chat_histories |-> chat_histories,
              document_contexts |-> self_document_contexts, asked |-> <<>>]
    ELSE IF fault \in {"format", "empty"}
        THEN [response_text |-> Notice, chat_histories |-> chat_histories,
              document_contexts |-> self_document_contexts, asked |-> <<>>]
    ELSE [response_text |-> Summary(serial + 1),
          chat_histories |->
              [GetSessionHistory(chat_id) EXCEPT ![chat_id] =
                  @ \o <<[kind |-> "HumanMessage", content |-> serial + 1],
                         [kind |-> "AIMessage", content |-> serial + 1]>>],
          document_contexts |->
              (chat_id :> DocumentInfo(doc, fault)) @@ self_document_contexts,
          asked |-> <<>>]

\* process_document_message and process_document: the file is downloaded, its
\* text extracted and summarised by a direct model call, and the result is
\* stored as the chat's document.
ProcessDocumentMessage(chat_id, doc, fault) ==
    IF fault = "fields"
        THEN [response_text |-> Apology, chat_histories |-> chat_histories,
              document_contexts |-> self_document_contexts, asked |-> <<>>]
    ELSE IF fault \in {"format", "empty"}
        THEN [response_text |-> Notice, chat_histories |-> chat_histories,
              document_contexts |-> self_document_contexts, asked |-> <<>>]
    ELSE [response_text |-> Summary(serial + 1),
          chat_histories |-> chat_histories,
          document_contexts |->
              (chat_id :> DocumentInfo(doc, fault)) @@ self_document_contexts,
          asked |-> <<>>]

\* should_respond_with_audio
ShouldRespondWithAudio(keys) == "voice" \in keys

\* send_text_response: the posts to Telegram; an error is logged.
SendTextResponse(text, fault) ==
    <<[method |-> "sendMessage", text |-> text, ok |-> fault # "sendMessage"]>>

\* SendAudioResponse with a fault: nothing is sent when the audio cannot be.
SendAudioResponseNoFallback(text, fault) ==
    IF fault = "speech" THEN <<>>
    ELSE IF fault = "sendAudio"
        THEN <<[method |-> "sendAudio", text |-> text, ok |-> FALSE]>>
    ELSE <<[method |-> "sendAudio", text |-> text, ok |-> TRUE]>>

\* send_audio_response: the posts to Telegram; the text is sent instead when
\* generate_speech returns nothing or the audio post raises.
SendAudioResponse(text, fault) ==
    IF fault = "speech" THEN SendTextResponse(text, fault)
    ELSE IF fault = "sendAudio"
        THEN <<[method |-> "sendAudio", text |-> text, ok |-> FALSE]>>
             \o SendTextResponse(text, fault)
    ELSE <<[method |-> "sendAudio", text |-> text, ok |-> TRUE]>>

\* Route with a fault: text is looked for first.
RouteTextFirst(keys) ==
    IF "text" \in keys THEN <<"text">>
    ELSE IF "voice" \in keys THEN <<"voice">>
    ELSE IF "photo" \in keys THEN <<"photo">>
    ELSE IF "document" \in keys THEN <<"document">>
    ELSE <<>>

\* process_webhook: the branches of the if/elif chain that run for a message.
Route(keys) ==
    IF "voice" \in keys THEN <<"voice">>
    ELSE IF "photo" \in keys THEN <<"photo">>
    ELSE IF "document" \in keys THEN <<"document">>
    ELSE IF "text" \in keys THEN <<"text">>
    ELSE <<>>

\* process_webhook: whether an exception leaves the function.  A body that is
\* not a mapping, or whose message is not one, raises before chat_id is
\* assigned, and the handler's own `if chat_id` then raises.
ProcessWebhookRaises(update_data) == update_data.shape # "mapping"

\* webhook(): the POST of one update, handled by process_webhook.
Webhook(update_data, fault) ==
    LET chat_id == update_data.chat_id
        raises == ProcessWebhookRaises(update_data)
        route == IF ~raises /\ chat_id # "None" THEN Route(update_data.keys) ELSE <<>>
        done == IF route = <<>>
                    THEN [response_text |-> Notice, chat_histories |-> chat_histories,
                          document_contexts |-> self_document_contexts, asked |-> <<>>]
                ELSE IF Head(route) = "document"
                    THEN ProcessDocumentMessage(chat_id, update_data.document, fault)
                ELSE ProcessTextMessage(chat_id, fault)
        audio == /\ route # <<>>
                 /\ \/ Head(route) = "voice"
                    \/ Head(route) = "text" /\ ShouldRespondWithAudio(update_data.keys)
        replies == IF route = <<>> THEN <<>>
                   ELSE <<[via |-> IF audio THEN "send_audio_response"
                                   ELSE "send_text_response",
                           text |-> done.response_text]>>
        sends == IF route = <<>> THEN <<>>
                 ELSE IF audio THEN SendAudioResponse(done.response_text, fault)
                 ELSE SendTextResponse(done.response_text, fault)
    IN  /\ chat_histories' = done.chat_histories
        /\ self_document_contexts' = done.document_contexts
        /\ serial' = serial + 1
        /\ last' = Call("webhook", chat_id, update_data, fault, raises,
                        [status |-> IF raises THEN 500 ELSE 200,
                         body |-> IF raises
                                      THEN [status |-> "error", message |-> "str(e)"]
                                      ELSE [status |-> "success", message |-> "None"],
                         route |-> route, replies |-> replies, sends |-> sends,
                         asked |-> done.asked],
                        IF chat_id \in DOMAIN chat_histories
                            THEN Len(chat_histories[chat_id]) ELSE 0)
        /\ UNCHANGED <<now, chat_history, user_sessions, document_contexts, cache,
                       log, open_sessions, pending>>

-----------------------------------------------------------------------------
Init ==
    /\ now = 0
    /\ chat_history = {}
    /\ user_sessions = {}
    /\ document_contexts = {}
    /\ cache = [h \in Objs |-> [loaded |-> FALSE, msgs |-> <<>>]]
    /\ serial = 0
    /\ log = [s \in Sessions |-> <<>>]
    /\ last = Call("start", "", "None", "none", FALSE, "None", 0)
    /\ open_sessions = 0
    /\ chat_histories = << >>
    /\ self_document_contexts = << >>
    /\ pending = << >>

\* The history operations on a store that does not fail.
Next ==
    \/ \E h \in Objs : NewHistory(h)
    \/ \E h \in Objs : ReadMessages(h, "none")
    \/ \E h \in Objs, k \in Kinds :
          serial < MaxAppends /\ now < MaxTime /\ AddMessage(h, k, "none")
    \/ \E h \in Objs : Clear(h, "none")
    \/ \E d \in {Horizon - 1, Horizon} : now + d <= MaxTime /\ PassTime(d)

Spec == Init /\ [][Next]_vars

\* One session filled past the retention window, on a store that does not fail.
NextWindow ==
    \/ NewHistory("hA")
    \/ ReadMessages("hA", "none")
    \/ \E k \in Kinds :
          /\ serial < WindowAppends
          /\ k # "HumanMessage" =>
                Cardinality({i \in 1..Len(log["A"]) :
                                log["A"][i].kind # "HumanMessage"}) < MaxOther
          /\ AddMessage("hA", k, "none")

SpecWindow == Init /\ [][NextWindow]_vars

\* The history and registry operations of one session on a store that can fail.
NextFaults ==
    \/ NewHistory("hA")
    \/ \E f \in {"none", "query"} : ReadMessages("hA", f)
    \/ \E k \in Kinds, f \in AddFaults :
          serial < MaxFaultAppends /\ now < MaxTime /\ AddMessage("hA", k, f)
    \/ \E f \in {"none", "delete"} : Clear("hA", f)
    \/ \E n \in UserNames \ {""}, f \in {"none", "commit"} :
          CreateOrUpdateSession("A", n, f)
    \/ \E d \in {Horizon} : now + d <= MaxTime /\ PassTime(d)

SpecFaults == Init /\ [][NextFaults]_vars

\* The document operations on a store that can fail.
NextDocs ==
    \/ \E sid \in Sessions, doc \in DocInputs, f \in {"none", "delete", "commit"} :
          serial < MaxStores /\ StoreDocument(sid, doc, f)
    \/ \E sid \in Sessions, f \in {"none", "query"} : GetDocumentCall(sid, f)
    \/ \E sid \in Sessions, f \in {"none", "delete"} : DeleteDocument(sid, f)
    \/ \E days \in DaysArgs, f \in {"none", "delete", "manager"} :
          CleanupOldDocuments(days, f)
    \/ \E d \in {TicksPerDay - 1, TicksPerDay} : now + d <= MaxDocTime /\ PassTime(d)

SpecDocs == Init /\ [][NextDocs]_vars

\* The registry of two sessions, touched by create_or_update_session and by
\* add_message, on a store that can fail.
NextRegistry ==
    \/ \E sid \in Sessions, n \in UserNames, f \in {"none", "commit"} :
          CreateOrUpdateSession(sid, n, f)
    \/ \E h \in Objs, f \in {"none", "registry"} :
          serial < MaxRegistryAppends /\ AddMessage(h, "HumanMessage", f)

SpecRegistry == Init /\ [][NextRegistry]_vars

\* Every operation that uses a store session, for one session_id, with every
\* statement that can fail.
NextStore ==
    \/ NewHistory("hA")
    \/ \E f \in {"none", "query"} : ReadMessages("hA", f)
    \/ \E f \in AddFaults :
          serial < MaxStoreCalls /\ AddMessage("hA", "HumanMessage", f)
    \/ \E f \in {"none", "delete"} : Clear("hA", f)
    \/ \E f \in {"none", "commit"} : CreateOrUpdateSession("A", "Ann", f)
    \/ \E doc \in DocInputs, f \in {"none", "delete", "commit"} :
          serial < MaxStoreCalls /\ StoreDocument("A", doc, f)
    \/ \E f \in {"none", "query"} : GetDocumentCall("A", f)
    \/ \E f \in {"none", "delete"} : DeleteDocument("A", f)
    \/ \E days \in DaysArgs, f \in {"none", "delete", "manager"} :
          CleanupOldDocuments(days, f)
    \/ \E f \in {"none", "delete", "manager"} : CleanupAllOldMessages(f)
    \/ \E d \in {Horizon} : now + d <= MaxTime /\ PassTime(d)

SpecStore == Init /\ [][NextStore]_vars

\* Two sessions that each get messages, one document and one registry record,
\* on a store that can fail during add_message.
NextFrame ==
    \/ \E h \in Objs, f \in AddFaults :
          /\ serial < MaxFrameCalls /\ now < MaxTime
          /\ AddMessage(h, "HumanMessage", f)
    \/ \E sid \in Sessions :
          /\ \A u \in user_sessions : u.session_id # sid
          /\ CreateOrUpdateSession(sid, "Ann", "none")
    \/ \E sid \in Sessions :
          /\ serial < MaxFrameCalls /\ SessionDocs(sid) = {}
          /\ StoreDocument(sid, CHOOSE doc \in DocInputs : TRUE, "none")
    \/ \E d \in {Horizon} : now + d <= MaxTime /\ PassTime(d)

SpecFrame == Init /\ [][NextFrame]_vars

\* One writer that replaces documents statement by statement, and readers
\* that run between its statements.
NextOverlap ==
    \/ \E sid \in Sessions, doc \in DocInputs, f \in {"none", "delete"} :
          serial < MaxOverlapStores /\ StoreDocumentDelete(sid, doc, f)
    \/ \E f \in {"none", "commit"} : StoreDocumentCommit(f)
    \/ \E sid \in Sessions, f \in {"none", "query"} : GetDocumentCall(sid, f)

SpecOverlap == Init /\ [][NextOverlap]_vars

\* The webhook, for every kind of update and every failure of a collaborator.
NextBot ==
    \E update_data \in Updates, f \in WebhookFaults :
        serial < MaxEvents /\ Webhook(update_data, f)

SpecBot == Init /\ [][NextBot]_vars

\* One chat that sends text messages only.
NextChat ==
    \E f \in {"none", "llm"} :
        /\ serial < WindowEvents
        /\ Webhook([shape |-> "mapping", chat_id |-> "A", keys |-> {"text"},
                    document |-> "None"], f)

SpecChat == Init /\ [][NextChat]_vars


-----------------------------------------------------------------------------
(* What the history claims speak about *)

RetentionWindow == 20

\* The messages add_message stored for the session since its last clear.
LogMessages(sid) ==
    [i \in 1..Len(log[sid]) |-> [kind |-> log[sid][i].kind,
                                 content |-> log[sid][i].content]]

\* The creation timestamp of the session's message with this content.
Stamp(sid, content) ==
    (CHOOSE i \in 1..Len(log[sid]) : log[sid][i].content = content)

\* No message stored for the session since its last clear is older than the horizon.
NoneExpired(sid) ==
    \A i \in 1..Len(log[sid]) : now - log[sid][i].timestamp <= Horizon

\* C1: once more than 20 messages were appended to a session, none of them older
\* than the horizon, a load from the store and the cache of the appending
\* object both hold exactly the last 20 appended, in insertion order.
C1_LatestTwenty ==
    \A h \in Objs :
        LET sid == SessionOf(h)
            latest == LastN(LogMessages(sid), RetentionWindow)
        IN  (Len(log[sid]) > RetentionWindow /\ NoneExpired(sid)) =>
                /\ LoadMessages(sid) = latest
                /\ cache[h].loaded => cache[h].msgs = latest

\* The statement of C1 for sessions that hold human and ai messages only.
LatestTwentyOfHumanAndAi ==
    \A h \in Objs :
        LET sid == SessionOf(h)
            latest == LastN(LogMessages(sid), RetentionWindow)
        IN  (/\ Len(log[sid]) > RetentionWindow
             /\ NoneExpired(sid)
             /\ \A i \in 1..Len(log[sid]) : log[sid][i].kind # "SystemMessage") =>
                /\ LoadMessages(sid) = latest
                /\ cache[h].loaded => cache[h].msgs = latest

\* C2: at most 20 messages appended to a session, none expired: a read returns
\* exactly that sequence, each message with its class and content.
C2_RoundTrip ==
    \A h \in Objs :
        LET sid == SessionOf(h)
        IN  (Len(log[sid]) <= RetentionWindow /\ NoneExpired(sid)) =>
                Messages(h) = LogMessages(sid)

\* C3: a read never returns a message created more than the horizon ago.
C3_NoExpiredRead ==
    \A h \in Objs :
        \A i \in 1..Len(Messages(h)) :
            now - log[SessionOf(h)][Stamp(SessionOf(h), Messages(h)[i].content)].timestamp
                <= Horizon

\* C4: right after an add_message, no message of the session that was older than
\* the horizon when the call ran is left in the object's cache or in the store.
C4_ExpiredGoneAfterAdd ==
    last.op = "add_message" =>
        LET h == last.target
            sid == SessionOf(h)
            cutoff_time == (now - 1) - Horizon
        IN  /\ \A r \in SessionRows(sid) : ~(r.timestamp < cutoff_time)
            /\ cache[h].loaded =>
                  \A i \in 1..Len(cache[h].msgs) :
                      ~(log[sid][Stamp(sid, cache[h].msgs[i].content)].timestamp
                            < cutoff_time)

\* C5: an add_message step stores the message if and only if it updates the
\* session's registry row, and a step in which a statement failed leaves the
\* tables as they were.
C5_AtomicAdd ==
    [][(last'.op = "add_message" /\ serial' = serial + 1) =>
          LET sid == SessionOf(last'.target)
              stored == \E r \in chat_history' : r.content = serial'
              registered ==
                  \E u \in user_sessions, v \in user_sessions' :
                      /\ u.session_id = sid /\ v.session_id = sid
                      /\ v.last_interaction = now
                      /\ v.total_messages = u.total_messages + 1
          IN  /\ stored <=> registered
              /\ last'.fault # "none" =>
                    (chat_history' = chat_history /\ user_sessions' = user_sessions)
      ]_vars

\* C6 as claimed: a failed insert of add_message reaches the caller as an error.
C6_FailureReported ==
    (last.op = "add_message" /\ last.fault = "insert") => last.raised

\* C6 as amended: add_message raises nothing and returns None whatever failed;
\* after a failed insert the message is neither in the store nor in the cache.
C6_FailureSwallowed ==
    last.op = "add_message" =>
        /\ ~last.raised /\ last.ret = "None"
        /\ last.fault = "insert" =>
              /\ \A r \in chat_history : r.content # serial
              /\ \A i \in 1..Len(cache[last.target].msgs) :
                    cache[last.target].msgs[i].content # serial

C6_Witness ==
    /\ last.op = "add_message" /\ last.fault = "insert"
    /\ cache[last.target].loaded /\ cache[last.target].msgs # <<>>

\* C7: right after a clear whose delete committed, a read through the object and
\* a load from the store return the empty sequence and the store has no row of
\* the session.
C7_ClearEmpties ==
    (last.op = "clear" /\ last.fault = "none") =>
        /\ Messages(last.target) = <<>>
        /\ LoadMessages(SessionOf(last.target)) = <<>>
        /\ SessionRows(SessionOf(last.target)) = {}

C7_Witness ==
    /\ last.op = "clear" /\ last.rows > 0
    /\ chat_history # {}

-----------------------------------------------------------------------------
(* What the document claims speak about *)

\* The dict get_document returns carries the data store_document was given.
SameDocument(got, doc) ==
    /\ got.found
    /\ got.filename = doc.filename
    /\ got.content = doc.content
    /\ got.summary = doc.summary
    /\ got.file_type = doc.file_type
    /\ got.file_size = doc.file_size

\* C8: no session ever has more than one row in document_contexts, and right
\* after a successful store_document the session has exactly one document, the
\* one get_document returns with the data of that call.
C8_OneDocument ==
    /\ \A sid \in Sessions : Cardinality(SessionDocs(sid)) <= 1
    /\ (last.op = "store_document" /\ last.ret) =>
          /\ Cardinality(SessionDocs(last.target)) = 1
          /\ SameDocument(GetDocument(last.target), last.arg)

\* The second of two store_document calls, both for one session and both
\* successful, has returned.
C8_Witness ==
    /\ last.op = "store_document" /\ last.ret
    /\ last.rows = 1 /\ serial >= 2

\* C9: a store_document step in which a statement failed returns False, raises
\* nothing and leaves document_contexts as it was, so that get_document returns
\* for every session what it returned before.
C9_FailedStoreKeepsDocument ==
    [][(last'.op = "store_document" /\ last'.fault # "none") =>
          /\ last'.ret = FALSE
          /\ ~last'.raised
          /\ document_contexts' = document_contexts
          /\ \A sid \in Sessions : GetDocument(sid)' = GetDocument(sid)
      ]_vars

\* A store_document failed for a session that has a document attached.
C9_Witness ==
    /\ last.op = "store_document" /\ last.fault # "none"
    /\ last.rows = 1
    /\ GetDocument(last.target).found
    /\ GetDocument(last.target).filename # last.arg.filename

\* C10: a cleanup_old_documents(days) step on a store that answers deletes
\* exactly the rows uploaded before now - days, of whatever session, returns
\* their number, and get_document returns every other row afterwards.
C10_CleanupOldDocuments ==
    [][(last'.op = "cleanup_old_documents" /\ last'.fault = "none") =>
          LET days == last'.arg
              old == {d \in document_contexts :
                        d.uploaded_at < now - days * TicksPerDay}
          IN  /\ document_contexts' = document_contexts \ old
              /\ last'.ret = Cardinality(old)
              /\ \A d \in document_contexts \ old :
                    /\ SameDocument(GetDocument(d.session_id)', d)
                    /\ GetDocument(d.session_id)'.uploaded_at = IsoFormat(d.uploaded_at)
      ]_vars

\* A cleanup deleted the document of one session and kept that of the other.
C10_Witness ==
    /\ last.op = "cleanup_old_documents" /\ last.fault = "none"
    /\ last.ret = 1 /\ last.rows = 2
    /\ Cardinality(document_contexts) = 1

-----------------------------------------------------------------------------
(* What the registry claims speak about *)

\* The rows of user_sessions with this session_id.
SessionRecords(sid) == {u \in user_sessions : u.session_id = sid}

\* C11: a create_or_update_session step on a store that answers creates the
\* session's record with first_interaction = now when there is none, and when
\* there is one it sets last_interaction to now and adds one to total_messages.
C11_Touch ==
    [][(last'.op = "create_or_update_session" /\ last'.fault = "none") =>
          LET sid == last'.target
          IN  IF SessionRecords(sid) = {}
                  THEN \E v \in user_sessions' :
                          v.session_id = sid /\ v.first_interaction = now
                  ELSE \A u \in SessionRecords(sid) :
                          \E v \in user_sessions' :
                              /\ v.session_id = sid
                              /\ v.last_interaction = now
                              /\ v.total_messages = u.total_messages + 1
      ]_vars

\* C12: no step changes the user_name of a record that has a non-empty one, and
\* a create_or_update_session step on a store that answers, called with a
\* non-empty name for a record without one, gives the record that name.
C12_FirstSeenNameWins ==
    [][\A u \in user_sessions :
          \E v \in user_sessions' :
              /\ v.session_id = u.session_id
              /\ ~Falsy(u.user_name) => v.user_name = u.user_name
              /\ (/\ Falsy(u.user_name)
                  /\ last'.op = "create_or_update_session"
                  /\ last'.fault = "none"
                  /\ last'.target = u.session_id
                  /\ ~Falsy(last'.arg)) => v.user_name = last'.arg
      ]_vars

\* A create_or_update_session with another name has run on a record that
\* already had one.
C12_Witness ==
    /\ last.op = "create_or_update_session" /\ last.fault = "none"
    /\ last.rows = 1 /\ last.arg = "Bob"
    /\ \E u \in user_sessions : u.session_id = last.target /\ u.user_name = "Ann"

\* C13: right after an add_message in which no statement failed, the session
\* has a record in user_sessions, and its last_interaction is the time of the
\* call.
C13_LazySession ==
    (last.op = "add_message" /\ last.fault = "none") =>
        \E u \in user_sessions :
            /\ u.session_id = SessionOf(last.target)
            /\ u.last_interaction = now - 1

-----------------------------------------------------------------------------
(* What the webhook claims speak about *)

\* C14: the system message built for a chat has a document block if and only
\* if get_document returns a document for that session, and the block then
\* carries the filename and the summary of that document.
C14_DocumentBlock ==
    \A c \in ChatIds :
        LET system_message == CreateSystemMessage("Ann", c)
            got == GetDocument(c)
        IN  /\ (system_message.document # <<>>) <=> got.found
            /\ got.found =>
                  /\ system_message.document[1].filename = got.filename
                  /\ system_message.document[1].summary = got.summary

\* C15: the history handed to the model call of an event never holds more
\* than 20 messages.
C15_WindowToModel ==
    last.op = "webhook" =>
        \A i \in 1..Len(last.ret.asked) :
            Len(last.ret.asked[i].history) <= RetentionWindow

\* The place of a kind in the order voice, photo, document, text.
Rank(kind) ==
    CASE kind = "voice" -> 1
      [] kind = "photo" -> 2
      [] kind = "document" -> 3
      [] kind = "text" -> 4

\* C16: an event with a chat id runs the path of the first kind present in
\* the order voice, photo, document, text, and no other, and hands exactly one
\* reply to the send step; with none of the four kinds it runs no path and
\* sends nothing.
C16_OneKindOneReply ==
    (last.op = "webhook" /\ last.arg.shape = "mapping" /\ last.arg.chat_id # "None") =>
        LET keys == last.arg.keys
        IN  /\ keys = {} => last.ret.route = <<>>
            /\ keys # {} =>
                  /\ Len(last.ret.route) = 1
                  /\ last.ret.route[1] \in keys
                  /\ \A k \in keys : Rank(last.ret.route[1]) <= Rank(k)
            /\ Len(last.ret.replies) = Len(last.ret.route)
            /\ last.ret.route = <<>> => last.ret.sends = <<>>
            /\ last.ret.route # <<>> => last.ret.sends # <<>>
            /\ last.ret.asked # <<>> =>
                  (last.ret.route # <<>> /\ last.ret.route # <<"document">>)

\* An event that carries a voice and a text has been handled.
C16_Witness ==
    /\ last.op = "webhook" /\ last.arg.chat_id # "None"
    /\ {"voice", "text"} \subseteq last.arg.keys
    /\ last.ret.route = <<"voice">>
    /\ Len(last.ret.replies) = 1

\* C17: the reply of a voice event, and of no other, goes to sendAudio; when
\* generate_speech gives nothing the same text goes to sendMessage instead,
\* when the audio post raises the same text goes to sendMessage after it; no
\* event has a successful audio post and a text post; the reply of a photo,
\* document or text event goes to sendMessage only.
C17_AudioIffVoice ==
    (last.op = "webhook" /\ last.ret.replies # <<>>) =>
        LET text == last.ret.replies[1].text
            sends == last.ret.sends
            IsAudio(x) == x.method = "sendAudio" /\ x.text = text
            IsText(x) == x.method = "sendMessage" /\ x.text = text
        IN  /\ IF "voice" \in last.arg.keys
                   THEN IF last.fault = "speech"
                            THEN Len(sends) = 1 /\ IsText(sends[1])
                        ELSE IF last.fault = "sendAudio"
                            THEN /\ Len(sends) = 2
                                 /\ IsAudio(sends[1]) /\ ~sends[1].ok
                                 /\ IsText(sends[2])
                        ELSE Len(sends) = 1 /\ IsAudio(sends[1]) /\ sends[1].ok
                   ELSE Len(sends) = 1 /\ IsText(sends[1])
            /\ ~\E i, j \in 1..Len(sends) :
                    /\ sends[i].method = "sendAudio" /\ sends[i].ok
                    /\ sends[j].method = "sendMessage"

\* The audio post of a voice event raised.
C17_Witness ==
    /\ last.op = "webhook" /\ "voice" \in last.arg.keys
    /\ last.fault = "sendAudio"
    /\ Len(last.ret.sends) = 2

\* C18: a webhook step that runs the document path leaves the history of every
\* chat as it was, calls the model with no history, and leaves the document of
\* every other chat as it was.
C18_DocumentKeepsHistory ==
    [][(last'.op = "webhook" /\ last'.ret.route = <<"document">>) =>
          /\ chat_histories' = chat_histories
          /\ last'.ret.asked = <<>>
          /\ \A c \in DOMAIN self_document_contexts :
                c # last'.target =>
                    /\ c \in DOMAIN self_document_contexts'
                    /\ self_document_contexts'[c] = self_document_contexts[c]
      ]_vars

\* A document was attached to a chat that has a conversation.
C18_Witness ==
    /\ last.op = "webhook" /\ last.ret.route = <<"document">>
    /\ last.ret.replies[1].text.type = "summary"
    /\ last.target \in DOMAIN self_document_contexts
    /\ last.target \in DOMAIN chat_histories
    /\ chat_histories[last.target] # <<>>

\* An update that lacks what the handler expects of it.
Malformed(update_data, fault) ==
    \/ update_data.shape # "mapping"
    \/ update_data.chat_id = "None"
    \/ fault = "fields"

\* C19: for a malformed update process_webhook raises nothing, the endpoint
\* answers success without exception text, and whatever is sent is an apology.
C19_MalformedHandled ==
    (last.op = "webhook" /\ Malformed(last.arg, last.fault)) =>
        /\ ~last.raised
        /\ last.ret.status = 200
        /\ last.ret.body.message = "None"
        /\ \A i \in 1..Len(last.ret.sends) : last.ret.sends[i].text = Apology

-----------------------------------------------------------------------------
(* What the resource claim speaks about *)

\* C20: after every call, whether it returned or raised and whatever statement
\* failed, every store session that was opened has been closed.
C20_SessionsReleased == open_sessions = 0

\* A maintenance call in which the delete failed has ended, on a store that
\* holds a message and a document.
C20_Witness ==
    /\ last.op \in {"cleanup_all_old_messages", "cleanup_old_documents"}
    /\ last.fault = "delete"
    /\ chat_history # {}
    /\ document_contexts # {}

-----------------------------------------------------------------------------
(* What the maintenance claim speaks about *)

\* C21: a cleanup_all_old_messages or cleanup_old_documents call in which a
\* store step failed (obtaining the manager or the session, the delete, the
\* commit) raises nothing and returns 0, and a step of such a call deletes
\* nothing.
C21_MaintenanceSwallows ==
    [][(/\ last'.op \in {"cleanup_all_old_messages", "cleanup_old_documents"}
        /\ last'.fault # "none") =>
          /\ ~last'.raised
          /\ last'.ret = 0
          /\ chat_history' = chat_history
          /\ document_contexts' = document_contexts
      ]_vars

-----------------------------------------------------------------------------
(* What the claim about readers during a replacement speaks about *)

\* C22: a get_document that the store answers, made for a session while a
\* store_document that replaces the session's document has not committed yet,
\* returns the old document; it never returns None.  After the commit the
\* session's document is the new one.
C22_ReaderSeesDocument ==
    /\ (/\ last.op = "get_document" /\ last.fault = "none"
        /\ pending # << >>
        /\ pending[1].session_id = last.target
        /\ pending[1].replaced # {}) =>
          /\ last.ret.found
          /\ \E d \in pending[1].replaced : SameDocument(last.ret, d)
    /\ (last.op = "store_document" /\ last.ret /\ last.rows > 0) =>
          SameDocument(GetDocument(last.target), last.arg)

\* A reader ran between the delete and the commit of a replacement by another
\* file.
C22_Witness ==
    /\ last.op = "get_document" /\ last.fault = "none"
    /\ pending # << >>
    /\ pending[1].session_id = last.target
    /\ \E d \in pending[1].replaced : d.filename # pending[1].doc.filename

-----------------------------------------------------------------------------
(* What the claim about the eviction of add_message speaks about *)

\* C23: an add_message step of a session removes no row but rows of that
\* session older than the horizon, and, unless the eviction itself failed,
\* leaves none of those; it leaves the messages, the documents and the
\* registry records of every other session as they were; and the row it
\* inserts is in the store after the step.
C23_EvictsOwnExpiredOnly ==
    [][last'.op = "add_message" =>
          LET sid == SessionOf(last'.target)
              cutoff_time == now - Horizon
              Expired(r) == r.session_id = sid /\ r.timestamp < cutoff_time
          IN  /\ \A r \in chat_history \ chat_history' : Expired(r)
              /\ last'.fault # "cleanup" =>
                    \A r \in chat_history : Expired(r) => r \notin chat_history'
              /\ {r \in chat_history' : r.session_id # sid}
                    = {r \in chat_history : r.session_id # sid}
              /\ {d \in document_contexts' : d.session_id # sid}
                    = {d \in document_contexts : d.session_id # sid}
              /\ {u \in user_sessions' : u.session_id # sid}
                    = {u \in user_sessions : u.session_id # sid}
              /\ last'.fault # "insert" =>
                    \E r \in chat_history' :
                        /\ r.session_id = sid
                        /\ r.content = serial'
                        /\ r.timestamp = now
      ]_vars

\* An add_message for A evicted A's expired message while B holds an expired
\* message, a document and a registry record.
C23_Witness ==
    /\ last.op = "add_message" /\ last.fault = "none" /\ last.target = "hA"
    /\ last.rows = 1
    /\ Cardinality(SessionRows("A")) = 1
    /\ \E r \in SessionRows("B") : r.timestamp < (now - 1) - Horizon
    /\ SessionDocs("B") # {}
    /\ \E u \in user_sessions : u.session_id = "B"

-----------------------------------------------------------------------------
(* What the claims about the cache speak about *)

\* C24: whenever the cache of a history object is loaded, it equals what a
\* load from the store returns for the object's session.
C24_CacheCoherent ==
    \A h \in Objs :
        cache[h].loaded => cache[h].msgs = LoadMessages(SessionOf(h))

\* The contents add_message stored for the session since its last clear.
StoredContents(sid) == {log[sid][i].content : i \in 1..Len(log[sid])}

\* C25: a step of add_message whose insert failed, or of clear whose delete
\* failed, leaves the cache of every object as it was, and after every step
\* the cache of an object holds only messages that were stored for its
\* session.
C25_WriteThrough ==
    [][/\ (\/ last'.op = "add_message" /\ last'.fault = "insert"
           \/ last'.op = "clear" /\ last'.fault = "delete") => cache' = cache
       /\ \A h \in Objs :
             \A i \in 1..Len(cache'[h].msgs) :
                 cache'[h].msgs[i].content \in StoredContents(SessionOf(h))'
      ]_vars

\* A clear failed on an object whose cache holds messages.
C25_Witness ==
    /\ last.op = "clear" /\ last.fault = "delete"
    /\ cache[last.target].loaded
    /\ cache[last.target].msgs # <<>>
    /\ SessionRows(SessionOf(last.target)) # {}

====
